---- MODULE Spec2Model ----
(***************************************************************************)
(* Model of src/dashboard.py: the module-level inventory pipeline          *)
(* (lines 8-65) and the Dash callbacks that serve the filtered views       *)
(* (lines 238-242 and 361-481).                                            *)
(*                                                                         *)
(* Numbers.  pandas holds the derived columns as float64.  The model       *)
(* keeps them exact:                                                       *)
(*   - Avg_Daily_Sales is held in hundredths (500 is 5.00), which is what  *)
(*     .round(2) leaves;                                                   *)
(*   - Lead_Time_Days of a summary row is the fraction [num, den]          *)
(*     (sum of the group's lead times over the group's size);              *)
(*   - Current_Stock_Level of an input record is held in halves (5 is      *)
(*     2.5), so that .round() has something to round;                      *)
(*   - a float quotient is the fraction [num, den], den = 0 standing for   *)
(*     +inf (float64 division by 0.0 does not raise);                      *)
(*   - Series.round() rounds half to even.                                 *)
(***************************************************************************)
EXTENDS Integers, Sequences, FiniteSets, TLC

\* ------------------------------------------------------------------ bounds
MaxRows == 2

\* Column values the input file is drawn from, each list in sorted order
\* (groupby returns its groups in sorted key order).
Dates == <<1, 2>>
Machines == <<"M1", "M2">>
Locations == <<"Mall", "Office">>
Product_IDs == <<"P1", "P2">>
Product_Names == <<"Chips", "Cola">>

\* (Units_Sold, Lead_Time_Days, Current_Stock_Level in halves) of a row:
\* 4 units at stock 10.0, 6 units at stock 4.0, no sale at stock 2.5, and
\* 1 unit at stock 3.5.
Readings ==
    { <<4, 3, 20>>, <<6, 3, 8>>, <<0, 2, 5>>, <<1, 0, 7>> }

Range(s) == { s[i] : i \in 1..Len(s) }

\* The Category column of a row goes with its Product_Name.
CategoryOf(name) == IF name = "Cola" THEN "Drinks" ELSE "Snacks"

\* One row of the CSV file.
TransactionRecord ==
    { [ Date |-> d, Machine_ID |-> m, Location_Type |-> l, Product_ID |-> p,
        Product_Name |-> n, Category |-> CategoryOf(n),
        Units_Sold |-> r[1], Lead_Time_Days |-> r[2],
        Current_Stock_Level |-> r[3] ] :
        d \in Range(Dates), m \in Range(Machines), l \in Range(Locations),
        p \in Range(Product_IDs), n \in Range(Product_Names), r \in Readings }

VARIABLES
    df,                \* the loaded DataFrame: a sequence of TransactionRecord
    pc,                \* "load" while the file is read, "ready" once built
    sales_data,        \* the policy table (lines 35-56)
    latest_stock,      \* latest stock per (Machine_ID, Product_ID) (59-60)
    final_order_df,    \* the OrderLine table (lines 63-65)
    machine_dropdown,  \* value of the 'machine-dropdown' component
    overall_style,     \* display of 'overall-stats'
    selected_style,    \* display of 'selected-stats'
    fig_line,          \* data of 'selected-units-sold-line'
    fig_bar,           \* data of 'selected-recommended-stock-bar'
    table_data,        \* data of 'selected-machine-table'
    callback_error     \* the last update_selected_machine_graphs call raised

vars == << df, pc, sales_data, latest_stock, final_order_df, machine_dropdown,
           overall_style, selected_style, fig_line, fig_bar, table_data,
           callback_error >>

\* ----------------------------------------------------------------- helpers
RECURSIVE SumSeq(_)
SumSeq(s) == IF s = <<>> THEN 0 ELSE Head(s) + SumSeq(Tail(s))

RECURSIVE Concat(_)
Concat(ss) == IF ss = <<>> THEN <<>> ELSE Head(ss) \o Concat(Tail(ss))

\* numpy rint of the non-negative fraction num/den: nearest, ties to even.
RoundHalfEven(num, den) ==
    LET q == num \div den
        r == num % den
    IN  IF 2 * r < den THEN q
        ELSE IF 2 * r > den THEN q + 1
        ELSE IF q % 2 = 0 THEN q ELSE q + 1

\* float64 division num/den of non-negative numbers, num > 0 when den = 0.
FloatDiv(num, den) == [ num |-> num, den |-> den ]

\* Series.round() of a float quotient: +inf stays +inf.
RoundFloat(x) ==
    IF x.den = 0 THEN [ inf |-> TRUE, val |-> 0 ]
    ELSE [ inf |-> FALSE, val |-> RoundHalfEven(x.num, x.den) ]

\* A clip that sends a non-finite value to the lower bound.
Clip_InfToLower(x, lower, upper) ==
    IF x.inf THEN lower
    ELSE IF x.val < lower THEN lower
    ELSE IF x.val > upper THEN upper
    ELSE x.val

\* Series.clip(lower, upper) of a rounded float.
Clip(x, lower, upper) ==
    IF x.inf THEN upper
    ELSE IF x.val < lower THEN lower
    ELSE IF x.val > upper THEN upper
    ELSE x.val

\* Lexicographic product of a sorted list of key tuples with a sorted column.
CrossSeq(A, B) ==
    [ i \in 1..(Len(A) * Len(B)) |->
        Append(A[((i - 1) \div Len(B)) + 1], B[((i - 1) % Len(B)) + 1]) ]

\* DataFrame.drop_duplicates(): the first occurrence of each row is kept.
RECURSIVE DropDuplicates(_)
DropDuplicates(s) ==
    IF s = <<>> THEN <<>>
    ELSE LET init == DropDuplicates(SubSeq(s, 1, Len(s) - 1))
             last == s[Len(s)]
         IN  IF last \in Range(init) THEN init ELSE Append(init, last)

\* left.merge(right, on=columns): every left row, in order, joined with each
\* right row, in order, that agrees with it on the columns; the joined row
\* has the columns of both.  Every merge of the program has a match for
\* each left row (the right table is derived from the same records), so
\* inner and left merges coincide, and no column outside the key is shared.
Merge(left, right, on) ==
    Concat([ i \in 1..Len(left) |->
        LET hits == SelectSeq(right,
                        LAMBDA r : \A c \in on : left[i][c] = r[c])
        IN  [ j \in 1..Len(hits) |-> left[i] @@ hits[j] ] ])

\* frame[[columns]]
Project(rows, columns) ==
    [ i \in 1..Len(rows) |-> [ c \in columns |-> rows[i][c] ] ]

\* -------------------------------------------------- the pipeline (8-65)
MLP_Keys ==
    CrossSeq(CrossSeq([ i \in 1..Len(Machines) |-> <<Machines[i]>> ],
                      Locations), Product_IDs)
MLPN_Keys == CrossSeq(MLP_Keys, Product_Names)
MP_Keys ==
    CrossSeq([ i \in 1..Len(Machines) |-> <<Machines[i]>> ], Product_IDs)

MLP_Columns == { "Machine_ID", "Location_Type", "Product_ID" }

SameMLP(a, b) ==
    /\ a.Machine_ID = b.Machine_ID
    /\ a.Location_Type = b.Location_Type
    /\ a.Product_ID = b.Product_ID

\* df.groupby([Machine_ID, Location_Type, Product_ID]): the rows of a group.
GroupMLP(k) ==
    SelectSeq(df, LAMBDA r : /\ r.Machine_ID = k[1]
                             /\ r.Location_Type = k[2]
                             /\ r.Product_ID = k[3])

\* df.groupby([Machine_ID, Location_Type, Product_ID, Product_Name])
GroupMLPN(k) ==
    SelectSeq(df, LAMBDA r : /\ r.Machine_ID = k[1]
                             /\ r.Location_Type = k[2]
                             /\ r.Product_ID = k[3]
                             /\ r.Product_Name = k[4])

total_sales ==
    LET keys == SelectSeq(MLPN_Keys, LAMBDA k : GroupMLPN(k) # <<>>)
    IN  [ i \in 1..Len(keys) |->
            LET group == GroupMLPN(keys[i])
            IN  [ Machine_ID |-> keys[i][1], Location_Type |-> keys[i][2],
                  Product_ID |-> keys[i][3], Product_Name |-> keys[i][4],
                  Total_Units_Sold |->
                      SumSeq([ j \in 1..Len(group) |->
                                  group[j].Units_Sold ]) ] ]

active_days ==
    LET keys == SelectSeq(MLP_Keys, LAMBDA k : GroupMLP(k) # <<>>)
    IN  [ i \in 1..Len(keys) |->
            [ Machine_ID |-> keys[i][1], Location_Type |-> keys[i][2],
              Product_ID |-> keys[i][3],
              Active_Days |->
                  Cardinality({ r.Date : r \in Range(GroupMLP(keys[i])) }) ] ]

lead_time ==
    LET keys == SelectSeq(MLP_Keys, LAMBDA k : GroupMLP(k) # <<>>)
    IN  [ i \in 1..Len(keys) |->
            [ Machine_ID |-> keys[i][1], Location_Type |-> keys[i][2],
              Product_ID |-> keys[i][3],
              Lead_Time_Days |->
                  LET group == GroupMLP(keys[i])
                  IN  [ num |-> SumSeq([ j \in 1..Len(group) |->
                                    group[j].Lead_Time_Days ]),
                        den |-> Len(group) ] ] ]

\* (Total_Units_Sold / Active_Days).round(2), in hundredths.
Avg_Daily_Sales(total, days) == RoundHalfEven(100 * total, days)

\* The frequency clipped from above only.
Restock_Frequency_Days_NoLower(avg) ==
    Clip(RoundFloat(FloatDiv(1200, avg)), 0, 10)

\* (12 / Avg_Daily_Sales).round().clip(lower=2, upper=10)
Restock_Frequency_Days(avg) == Clip(RoundFloat(FloatDiv(1200, avg)), 2, 10)

\* (Avg_Daily_Sales * 0.2).round()
Safety_Stock(avg) == RoundHalfEven(avg, 500)

\* (Avg_Daily_Sales * (Restock_Frequency_Days + Lead_Time_Days)
\*    + Safety_Stock).round()
Recommended_Stock_Level(avg, freq, lead, safety) ==
    RoundHalfEven(avg * (freq * lead.den + lead.num) + 100 * lead.den * safety,
                  100 * lead.den)

category_lookup ==
    DropDuplicates([ i \in 1..Len(df) |->
        [ Product_ID |-> df[i].Product_ID, Category |-> df[i].Category ] ])

\* sales_data as it stands after line 56.
SalesData ==
    LET merged == Merge(total_sales, active_days, MLP_Columns)
        with_avg == [ i \in 1..Len(merged) |-> merged[i] @@
                        [ Avg_Daily_Sales |->
                            Avg_Daily_Sales(merged[i].Total_Units_Sold,
                                            merged[i].Active_Days) ] ]
        with_lead == Merge(with_avg, lead_time, MLP_Columns)
        with_freq == [ i \in 1..Len(with_lead) |-> with_lead[i] @@
                        [ Restock_Frequency_Days |->
                              Restock_Frequency_Days(with_lead[i].Avg_Daily_Sales),
                          Safety_Stock |->
                              Safety_Stock(with_lead[i].Avg_Daily_Sales) ] ]
        with_rec == [ i \in 1..Len(with_freq) |-> with_freq[i] @@
                        [ Recommended_Stock_Level |->
                            Recommended_Stock_Level(
                                with_freq[i].Avg_Daily_Sales,
                                with_freq[i].Restock_Frequency_Days,
                                with_freq[i].Lead_Time_Days,
                                with_freq[i].Safety_Stock) ] ]
    IN  Merge(with_rec, category_lookup, {"Product_ID"})

\* df.sort_values('Date'): the default kind is quicksort, which is not
\* stable, so rows with equal dates may come out in any order.  A result is
\* a permutation of the row positions with non-decreasing dates.
SortValuesDate ==
    { p \in [ 1..Len(df) -> 1..Len(df) ] :
        /\ \A i, j \in 1..Len(df) : i # j => p[i] # p[j]
        /\ \A i, j \in 1..Len(df) : i < j => df[p[i]].Date <= df[p[j]].Date }

\* The first row of each group instead of the last.
LatestStock_First(order) ==
    LET sorted == [ i \in 1..Len(df) |-> df[order[i]] ]
        Rows(k) == SelectSeq(sorted, LAMBDA r : /\ r.Machine_ID = k[1]
                                                /\ r.Product_ID = k[2])
        keys == SelectSeq(MP_Keys, LAMBDA k : Rows(k) # <<>>)
    IN  [ i \in 1..Len(keys) |->
            [ Machine_ID |-> keys[i][1], Product_ID |-> keys[i][2],
              Current_Stock_Level |->
                  RoundHalfEven(Rows(keys[i])[1].Current_Stock_Level, 2) ] ]

\* .groupby([Machine_ID, Product_ID])[Current_Stock_Level].last() of the
\* sorted rows, then .round().astype(int).
LatestStock(order) ==
    LET sorted == [ i \in 1..Len(df) |-> df[order[i]] ]
        Rows(k) == SelectSeq(sorted, LAMBDA r : /\ r.Machine_ID = k[1]
                                                /\ r.Product_ID = k[2])
        keys == SelectSeq(MP_Keys, LAMBDA k : Rows(k) # <<>>)
    IN  [ i \in 1..Len(keys) |->
            [ Machine_ID |-> keys[i][1], Product_ID |-> keys[i][2],
              Current_Stock_Level |->
                  RoundHalfEven(
                      Rows(keys[i])[Len(Rows(keys[i]))].Current_Stock_Level,
                      2) ] ]

\* The difference without the clip at 0.
Order_Quantity_NoClip(recommended, current) == recommended - current

\* (Recommended - Current).clip(lower=0).round().astype(int)
Order_Quantity(recommended, current) ==
    IF recommended - current < 0 THEN 0 ELSE recommended - current

\* final_order_df as it stands after line 65.
FinalOrderDf(sd, ls) ==
    LET merged == Merge(sd, ls, {"Machine_ID", "Product_ID"})
        with_order == [ i \in 1..Len(merged) |-> merged[i] @@
                          [ Order_Quantity |->
                              Order_Quantity(merged[i].Recommended_Stock_Level,
                                             merged[i].Current_Stock_Level) ] ]
    IN  Project(with_order,
                { "Machine_ID", "Location_Type", "Product_Name", "Category",
                  "Current_Stock_Level", "Recommended_Stock_Level",
                  "Order_Quantity" })

\* --------------------------------------------------- the callbacks
\* A toggle that never hides the overall section.
toggle_sections_OverallStays(selected_machine) ==
    IF selected_machine = "ALL" THEN << "block", "none" >>
    ELSE << "block", "block" >>

\* toggle_sections: the display of <<overall-stats, selected-stats>>.
toggle_sections(selected_machine) ==
    IF selected_machine = "ALL" THEN << "block", "none" >>
    ELSE << "none", "block" >>

\* df[df['Location_Type'] == m].groupby('Date')['Units_Sold'].sum()
machine_units(selected_machine) ==
    LET machine_df ==
            SelectSeq(df, LAMBDA r : r.Location_Type = selected_machine)
        days == SelectSeq(Dates,
                    LAMBDA d : \E r \in Range(machine_df) : r.Date = d)
    IN  [ i \in 1..Len(days) |->
            LET rows == SelectSeq(machine_df, LAMBDA r : r.Date = days[i])
            IN  [ Date |-> days[i],
                  Units_Sold |->
                      SumSeq([ j \in 1..Len(rows) |-> rows[j].Units_Sold ]) ] ]

machine_sales_data(selected_machine) ==
    SelectSeq(sales_data, LAMBDA r : r.Location_Type = selected_machine)

stock_data(selected_machine) ==
    SelectSeq(final_order_df, LAMBDA r : r.Location_Type = selected_machine)

\* machine_sales_data.merge(stock_data[[Product_Name, Current_Stock_Level]],
\*                          on='Product_Name', how='left')
merged_data(selected_machine) ==
    Merge(machine_sales_data(selected_machine),
          Project(stock_data(selected_machine),
                  { "Product_Name", "Current_Stock_Level" }),
          { "Product_Name" })

\* Two bars for each row of merged_data.
bar_data(selected_machine) ==
    LET merged == merged_data(selected_machine)
    IN  Concat([ i \in 1..Len(merged) |->
        LET row == merged[i]
        IN  << [ Product_Name |-> row.Product_Name,
                 Value |-> row.Current_Stock_Level,
                 Type |-> "Current Stock" ],
               [ Product_Name |-> row.Product_Name,
                 Value |-> row.Recommended_Stock_Level,
                 Type |-> "Recommended Stock" ] >> ])

\* px.bar(pd.DataFrame(bar_data), x='Product_Name', ...): a DataFrame made
\* of an empty list has no columns, and plotly express raises ValueError
\* for a column name the frame does not have.
px_bar_raises(data) == data = <<>>

\* The table filtered on the Machine_ID column instead.
machine_order_df_ByMachine(selected_machine) ==
    SelectSeq(final_order_df, LAMBDA r : r.Machine_ID = selected_machine)

machine_order_df(selected_machine) ==
    SelectSeq(final_order_df, LAMBDA r : r.Location_Type = selected_machine)

\* update_selected_machine_graphs: what the call returns, or that it raised.
update_selected_machine_graphs(selected_machine) ==
    IF selected_machine = "ALL"
    THEN [ raised |-> FALSE, fig_line |-> <<>>, fig_bar |-> <<>>,
           table_data |-> <<>> ]
    ELSE LET bars == bar_data(selected_machine)
         IN  IF px_bar_raises(bars)
             THEN [ raised |-> TRUE, fig_line |-> <<>>, fig_bar |-> <<>>,
                    table_data |-> <<>> ]
             ELSE [ raised |-> FALSE,
                    fig_line |-> machine_units(selected_machine),
                    fig_bar |-> bars,
                    table_data |-> machine_order_df(selected_machine) ]

\* The values a dropdown request can carry: the options of the component
\* (line 136) are ALL and the Location_Type values of df, and a request may
\* name a label that df does not hold.
Selectors == {"ALL"} \cup Range(Locations)

dropdown_options == {"ALL"} \cup { df[i].Location_Type : i \in 1..Len(df) }

\* ------------------------------------------------------------ the machine
Init ==
    /\ df = <<>>
    /\ pc = "load"
    /\ sales_data = <<>>
    /\ latest_stock = <<>>
    /\ final_order_df = <<>>
    /\ machine_dropdown = "ALL"
    /\ overall_style = "block"
    /\ selected_style = "none"
    /\ fig_line = <<>>
    /\ fig_bar = <<>>
    /\ table_data = <<>>
    /\ callback_error = FALSE

\* pd.read_csv delivers one more row of the file.
ReadRow(r) ==
    /\ pc = "load"
    /\ Len(df) < MaxRows
    /\ df' = Append(df, r)
    /\ UNCHANGED << pc, sales_data, latest_stock, final_order_df,
                    machine_dropdown, overall_style, selected_style,
                    fig_line, fig_bar, table_data, callback_error >>

\* The module-level statements of lines 27-65, run once at import.
BuildPipeline ==
    /\ pc = "load"
    /\ sales_data' = SalesData
    /\ \E order \in SortValuesDate : latest_stock' = LatestStock(order)
    /\ final_order_df' = FinalOrderDf(sales_data', latest_stock')
    /\ pc' = "ready"
    /\ UNCHANGED << df, machine_dropdown, overall_style, selected_style,
                    fig_line, fig_bar, table_data, callback_error >>

\* A change of 'machine-dropdown': Dash calls toggle_sections and
\* update_selected_machine_graphs with the new value.  A callback that
\* raises leaves its outputs as they were.
SelectMachine(selected_machine) ==
    /\ pc = "ready"
    /\ machine_dropdown' = selected_machine
    /\ overall_style' = toggle_sections(selected_machine)[1]
    /\ selected_style' = toggle_sections(selected_machine)[2]
    /\ \E out \in { update_selected_machine_graphs(selected_machine) } :
        /\ callback_error' = out.raised
        /\ IF out.raised
           THEN UNCHANGED << fig_line, fig_bar, table_data >>
           ELSE /\ fig_line' = out.fig_line
                /\ fig_bar' = out.fig_bar
                /\ table_data' = out.table_data
    /\ UNCHANGED << df, pc, sales_data, latest_stock, final_order_df >>

Next ==
    \/ \E r \in TransactionRecord : ReadRow(r)
    \/ BuildPipeline
    \/ \E m \in Selectors : SelectMachine(m)

Spec == Init /\ [][Next]_vars

\* ------------------------------------------------------------- properties
Count(s, r) == Cardinality({ i \in 1..Len(s) : s[i] = r })

Abs(x) == IF x < 0 THEN -x ELSE x

\* The records of df with the key (Machine_ID, Location_Type, Product_ID)
\* of row k.
KeyRecords(k) == { i \in 1..Len(df) : SameMLP(df[i], k) }

\* The records of df of the pair (Machine_ID, Product_ID) of row k.
PairRecords(k) ==
    { i \in 1..Len(df) : /\ df[i].Machine_ID = k.Machine_ID
                         /\ df[i].Product_ID = k.Product_ID }

RECURSIVE SumUnits(_)
SumUnits(I) ==
    IF I = {} THEN 0
    ELSE LET i == CHOOSE j \in I : TRUE
         IN  df[i].Units_Sold + SumUnits(I \ {i})

\* C1: every OrderLine row has order_quantity >= 0, and order_quantity = 0
\* whenever its current_stock_level >= its recommended_stock_level.
C1_OrderQuantityNonNegative ==
    pc = "ready" =>
        \A i \in 1..Len(final_order_df) :
            /\ final_order_df[i].Order_Quantity >= 0
            /\ final_order_df[i].Current_Stock_Level
                   >= final_order_df[i].Recommended_Stock_Level
               => final_order_df[i].Order_Quantity = 0

\* C1 witness: a built table with a row whose stock covers a positive
\* recommended level (order 0) and a row that orders something.
C1_Witness ==
    /\ pc = "ready"
    /\ \E i \in 1..Len(final_order_df) :
        /\ final_order_df[i].Recommended_Stock_Level > 0
        /\ final_order_df[i].Current_Stock_Level
               >= final_order_df[i].Recommended_Stock_Level
        /\ final_order_df[i].Order_Quantity = 0
    /\ \E i \in 1..Len(final_order_df) :
        final_order_df[i].Order_Quantity > 0

\* C2: for every summary row, total_units_sold is the sum of units_sold
\* over exactly the records with the row's machine_id, location_type and
\* product_id.
C2_TotalIsSumOverKey ==
    pc = "ready" =>
        \A i \in 1..Len(sales_data) :
            sales_data[i].Total_Units_Sold
                = SumUnits(KeyRecords(sales_data[i]))

\* C3: every RestockPolicy row of a non-empty transaction set has
\* 2 <= restock_frequency_days <= 10.
C3_RestockFrequencyInRange ==
    (pc = "ready" /\ df # <<>>) =>
        /\ sales_data # <<>>
        /\ \A i \in 1..Len(sales_data) :
            /\ 2 <= sales_data[i].Restock_Frequency_Days
            /\ sales_data[i].Restock_Frequency_Days <= 10

\* C3 witness: a key selling 10 a day (12/10 rounds to 1, below the range)
\* whose frequency is 2.
C3_Witness ==
    /\ pc = "ready"
    /\ \E i \in 1..Len(sales_data) :
        /\ sales_data[i].Avg_Daily_Sales = 1000
        /\ sales_data[i].Restock_Frequency_Days = 2

\* C4: a key whose avg_daily_sales is 0 does not stop the pipeline with a
\* division error: the pipeline completes and the key's
\* restock_frequency_days is 10.
C4_ZeroSalesFallsBackToTen ==
    (pc # "load" /\ \E i \in 1..Len(df) : SumUnits(KeyRecords(df[i])) = 0) =>
        /\ pc = "ready"
        /\ \A i \in 1..Len(df) :
            SumUnits(KeyRecords(df[i])) = 0 =>
                /\ \E j \in 1..Len(sales_data) : SameMLP(sales_data[j], df[i])
                /\ \A j \in 1..Len(sales_data) :
                    SameMLP(sales_data[j], df[i]) =>
                        /\ sales_data[j].Avg_Daily_Sales = 0
                        /\ sales_data[j].Restock_Frequency_Days = 10

\* C4 witness: the pipeline has completed on records that hold a key with
\* no units sold at all.
C4_Witness ==
    /\ pc = "ready"
    /\ \E j \in 1..Len(sales_data) :
        /\ sales_data[j].Avg_Daily_Sales = 0
        /\ sales_data[j].Restock_Frequency_Days = 10
        /\ \A i \in KeyRecords(sales_data[j]) : df[i].Units_Sold = 0

\* The OrderLine rows of key m, each as often as the full table holds it,
\* and no other row.
IsSelectionOf(rows, m) ==
    \A r \in Range(rows) \cup Range(final_order_df) :
        Count(rows, r) =
            IF r.Location_Type = m THEN Count(final_order_df, r) ELSE 0

GreatestDateRecords(k) ==
    { i \in PairRecords(k) :
        \A j \in PairRecords(k) : df[j].Date <= df[i].Date }

\* The largest member of a non-empty set of row positions.
Last(I) == CHOOSE i \in I : \A j \in I : j <= i

\* C6: the current_stock_level of the OrderLine rows of a (machine_id,
\* product_id) pair is the rounded value of the pair's record with the
\* greatest date, and among several records of that date the one that comes
\* last in the input.
C6_LatestStockIsLastInInputOrder ==
    pc = "ready" =>
        /\ Len(final_order_df) = Len(sales_data)
        /\ \A i \in 1..Len(sales_data) :
            final_order_df[i].Current_Stock_Level =
                RoundHalfEven(
                    df[Last(GreatestDateRecords(sales_data[i]))]
                        .Current_Stock_Level, 2)

\* C7: a selector value that is neither ALL nor a key of the data is served
\* without an error, with an empty time series, an empty stock comparison
\* and no OrderLine rows.
C7_UnknownSelectorGivesEmptyView ==
    (pc = "ready" /\ machine_dropdown \notin dropdown_options) =>
        /\ ~callback_error
        /\ fig_line = <<>>
        /\ fig_bar = <<>>
        /\ table_data = <<>>

\* The scenario of C8: the records of one (machine_id, product_id) pair are
\* (day 1, 4 units, stock 10) and (day 2, 6 units, stock 4), both of one
\* location and one product name, with a lead time of 3 days.
IsScenarioKey(k) ==
    /\ Cardinality(PairRecords(k)) = 2
    /\ PairRecords(k) = KeyRecords(k)
    /\ \A i \in PairRecords(k) :
        /\ df[i].Product_Name = k.Product_Name
        /\ df[i].Lead_Time_Days = 3
    /\ \E i \in PairRecords(k) :
        /\ df[i].Date = 1
        /\ df[i].Units_Sold = 4
        /\ df[i].Current_Stock_Level = 20
    /\ \E i \in PairRecords(k) :
        /\ df[i].Date = 2
        /\ df[i].Units_Sold = 6
        /\ df[i].Current_Stock_Level = 8

\* x is an integer nearest to num/den.
IsNearest(x, num, den) == 2 * Abs(num - x * den) <= den

\* C8: every key's row has active_days = the number of distinct dates,
\* avg_daily_sales = total/active_days to 2 decimals, restock_frequency_days
\* = 12/avg rounded and clipped to [2, 10], safety_stock = avg * 0.2
\* rounded, recommended_stock_level = avg * (frequency + lead time) +
\* safety stock rounded, and order_quantity = max(0, recommended - latest
\* stock); the scenario's key yields 2, 10, 5.0, 2, 1, 26, 4 and 22.
C8_PolicyFormulas ==
    pc = "ready" =>
        /\ Len(final_order_df) = Len(sales_data)
        /\ \A i \in 1..Len(sales_data) :
            LET s == sales_data[i]
                o == final_order_df[i]
                avg == s.Avg_Daily_Sales
                freq == s.Restock_Frequency_Days
                lead == s.Lead_Time_Days
            IN  /\ s.Active_Days =
                       Cardinality({ df[j].Date : j \in KeyRecords(s) })
                /\ IsNearest(avg, 100 * s.Total_Units_Sold, s.Active_Days)
                /\ \/ avg = 0
                   \/ freq = 2 /\ 2 * 1200 <= 5 * avg
                   \/ freq = 10 /\ 2 * 1200 >= 19 * avg
                   \/ 2 < freq /\ freq < 10 /\ IsNearest(freq, 1200, avg)
                /\ IsNearest(s.Safety_Stock, avg, 500)
                /\ IsNearest(s.Recommended_Stock_Level,
                             avg * (freq * lead.den + lead.num)
                                 + 100 * lead.den * s.Safety_Stock,
                             100 * lead.den)
                /\ o.Recommended_Stock_Level = s.Recommended_Stock_Level
                /\ \E j \in 1..Len(latest_stock) :
                    /\ latest_stock[j].Machine_ID = s.Machine_ID
                    /\ latest_stock[j].Product_ID = s.Product_ID
                    /\ latest_stock[j].Current_Stock_Level
                           = o.Current_Stock_Level
                /\ o.Order_Quantity >= 0
                /\ o.Order_Quantity
                       >= o.Recommended_Stock_Level - o.Current_Stock_Level
                /\ \/ o.Order_Quantity = 0
                   \/ o.Order_Quantity
                          = o.Recommended_Stock_Level - o.Current_Stock_Level
                /\ IsScenarioKey(s) =>
                    /\ s.Active_Days = 2
                    /\ s.Total_Units_Sold = 10
                    /\ avg = 500
                    /\ freq = 2
                    /\ s.Safety_Stock = 1
                    /\ s.Recommended_Stock_Level = 26
                    /\ o.Current_Stock_Level = 4
                    /\ o.Order_Quantity = 22

\* C8 witness: the pipeline has been built from the scenario's records.
C8_Witness ==
    /\ pc = "ready"
    /\ \E i \in 1..Len(sales_data) :
        /\ IsScenarioKey(sales_data[i])
        /\ final_order_df[i].Order_Quantity = 22

\* C9: with no record at all the aggregation step fails with an
\* EmptyInputError instead of building an empty summary and going on.
C9_EmptyInputIsFatal ==
    (pc # "load" /\ df = <<>>) => pc = "EmptyInputError"

\* C10: in a specific view the stock comparison holds one current-stock and
\* one recommended-stock value for each policy row of the selected key, the
\* current-stock value being that of the row's own (machine_id, product_id).
C10_StockComparisonPerPolicyRow ==
    (pc = "ready" /\ machine_dropdown \in dropdown_options \ {"ALL"}) =>
        LET policy == machine_sales_data(machine_dropdown)
        IN  /\ ~callback_error
            /\ Len(fig_bar) = 2 * Len(policy)
            /\ \A i \in 1..Len(policy) :
                /\ fig_bar[2 * i - 1].Type = "Current Stock"
                /\ \E j \in 1..Len(latest_stock) :
                    /\ latest_stock[j].Machine_ID = policy[i].Machine_ID
                    /\ latest_stock[j].Product_ID = policy[i].Product_ID
                    /\ latest_stock[j].Current_Stock_Level
                           = fig_bar[2 * i - 1].Value
                /\ fig_bar[2 * i].Type = "Recommended Stock"
                /\ fig_bar[2 * i].Value = policy[i].Recommended_Stock_Level

\* C11: in every reachable state exactly one of the two sections is shown,
\* and which one depends on the current selector value alone, whatever was
\* selected before: for ALL the overall section is shown, the
\* selected-machine section is hidden and no OrderLine row is returned; for
\* any other value the overall section is hidden and the selected-machine
\* section is shown.
C11_ViewFollowsLatestSelector ==
    /\ (overall_style = "block") # (selected_style = "block")
    /\ { overall_style, selected_style } = { "block", "none" }
    /\ machine_dropdown = "ALL" =>
        /\ overall_style = "block"
        /\ selected_style = "none"
        /\ table_data = <<>>
        /\ ~callback_error
    /\ machine_dropdown # "ALL" =>
        /\ overall_style = "none"
        /\ selected_style = "block"

\* C11 witness: a specific key has been selected, its section is shown with
\* its OrderLine rows, and the overall section is hidden.
C11_Witness ==
    /\ pc = "ready"
    /\ machine_dropdown = "Office"
    /\ selected_style = "block"
    /\ overall_style = "none"
    /\ ~callback_error
    /\ table_data # <<>>

====
